---- MODULE Spec2Model ----
(***************************************************************************)
(* A model of sandbox.py (DockerSandbox, Transaction) and of the           *)
(* run_demo loop of agent_quicksort.py.                                    *)
(*                                                                         *)
(* Strings are sequences of one-character strings over Chars.  A regular   *)
(* expression is a sequence of atoms; an atom is a literal character or    *)
(* the class "\\s".                                                         *)
(***************************************************************************)
EXTENDS Naturals, Sequences, FiniteSets, TLC

\* ------------------------------------------------------------------------
\* Bounds of the model
\* ------------------------------------------------------------------------
MaxCmdLen == 3
MaxDeny == 2
MaxCalls == 2
MaxSeqLen == 3
MaxFaults == 1
MaxData == 2
MaxWork == 2
MaxEnters == 2

\* ------------------------------------------------------------------------
\* Strings and regular expressions
\* ------------------------------------------------------------------------
Chars == {" ", "/", "a", "b"}

IsSpace(c) == c = " "

RECURSIVE SeqsUpTo(_, _)
SeqsUpTo(S, n) ==
    IF n = 0 THEN {<<>>}
    ELSE LET shorter == SeqsUpTo(S, n - 1)
         IN  shorter \cup {Append(s, x) : s \in {t \in shorter : Len(t) = n - 1}, x \in S}

RECURSIVE LStrip(_)
LStrip(s) == IF s # <<>> /\ IsSpace(Head(s)) THEN LStrip(Tail(s)) ELSE s

RECURSIVE RStrip(_)
RStrip(s) ==
    IF s # <<>> /\ IsSpace(s[Len(s)]) THEN RStrip(SubSeq(s, 1, Len(s) - 1)) ELSE s

\* str.strip()
Strip(s) == RStrip(LStrip(s))

\* str.split()[0] of a stripped, non-empty string
RECURSIVE FirstToken(_)
FirstToken(s) ==
    IF s = <<>> \/ IsSpace(Head(s)) THEN <<>> ELSE <<Head(s)>> \o FirstToken(Tail(s))

\* os.path.basename: what follows the last "/"
RECURSIVE Basename(_)
Basename(t) ==
    IF t = <<>> THEN <<>>
    ELSE IF t[Len(t)] = "/" THEN <<>>
    ELSE Append(Basename(SubSeq(t, 1, Len(t) - 1)), t[Len(t)])

AtomMatches(a, c) == IF a = "\\s" THEN IsSpace(c) ELSE a = c

MatchAt(pat, s, i) ==
    /\ i + Len(pat) - 1 <= Len(s)
    /\ \A k \in 1..Len(pat) : AtomMatches(pat[k], s[i + k - 1])

\* re.search(pat, s)
Search(pat, s) == \E i \in 1..(Len(s) + 1) : MatchAt(pat, s, i)

\* ------------------------------------------------------------------------
\* SandboxPolicy and DockerSandbox._check_policy
\* ------------------------------------------------------------------------
PolicyOk == [kind |-> "ok", pat |-> <<>>]
PolicyErr(k, p) == [kind |-> k, pat |-> p]

RECURSIVE DenyScan(_, _, _)
DenyScan(deny, stripped, i) ==
    IF i > Len(deny) THEN PolicyOk
    ELSE IF Search(deny[i], stripped) THEN PolicyErr("DeniedPattern", deny[i])
    ELSE DenyScan(deny, stripped, i + 1)

\* A bug _check_policy could have: the deny scan is skipped for an
\* allowlisted executable.
CheckPolicyDenySkipped(cmd, allow, deny) ==
    LET stripped == Strip(cmd)
        exe == Basename(FirstToken(stripped))
    IN  IF stripped = <<>> THEN PolicyErr("EmptyCommand", <<>>)
        ELSE IF allow # {} /\ exe \notin allow THEN PolicyErr("NotAllowlisted", <<>>)
        ELSE IF allow # {} THEN PolicyOk
        ELSE DenyScan(deny, stripped, 1)

CheckPolicy(cmd, allow, deny) ==
    LET stripped == Strip(cmd)
        exe == Basename(FirstToken(stripped))
    IN  IF stripped = <<>> THEN PolicyErr("EmptyCommand", <<>>)
        ELSE IF allow # {} /\ exe \notin allow THEN PolicyErr("NotAllowlisted", <<>>)
        ELSE DenyScan(deny, stripped, 1)

\* os.environ of the process that owns the sandbox, by name; the default
\* env_allowlist
HostEnv == {"PYTHONUNBUFFERED", "HOME"}
DefaultEnv == {"PYTHONUNBUFFERED"}

AllowNames == {<<"a">>, <<"b">>}
DenyPatterns == {<<"b">>, <<"/">>, <<"\\s">>, <<"a", "\\s">>}
AllCommands == SeqsUpTo(Chars, MaxCmdLen)
AllPolicies ==
    [allow : SUBSET AllowNames, deny : SeqsUpTo(DenyPatterns, MaxDeny),
     env_allowlist : {DefaultEnv}]

\* ------------------------------------------------------------------------
\* Docker host: error texts, results, audit events
\* ------------------------------------------------------------------------
Controllers == {"pids", "memory", "cpu"}

\* The text of a docker APIError (its explanation, lower-cased), as the set of
\* the markers the except clause looks for that occur in it.
TextPids == {"pids.max", "pids", "no such file"}
TextMemory == {"memory.max", "memory", "no such file"}
TextCpu == {"cpu.max", "cpu", "no such file"}
TextOther == {"no such image"}
ErrorTexts == {TextPids, TextMemory, TextCpu, TextOther}

\* the missing-file error of one controller
MissingFileText(c) ==
    IF c = "pids" THEN TextPids ELSE IF c = "memory" THEN TextMemory ELSE TextCpu

Absent == "absent"
NoCode == {}
NoContainer == 0
Attempts == 4

\* A bug run could have: ok is set whenever the command has exited.
ExitResultOkOnAnyExit(code) ==
    [ok |-> TRUE, code |-> {code}, stdout |-> "out", stderr |-> "err", error |-> Absent]

\* {"ok": code == 0, "code": code, "stdout": out, "stderr": err}
ExitResult(code) ==
    [ok |-> (code = 0), code |-> {code}, stdout |-> "out", stderr |-> "err", error |-> Absent]
ErrorResult(msg) ==
    [ok |-> FALSE, code |-> NoCode, stdout |-> Absent, stderr |-> Absent, error |-> msg]
NoResult ==
    [ok |-> FALSE, code |-> NoCode, stdout |-> Absent, stderr |-> Absent, error |-> "no result"]

VARIABLES
    policy,     \* SandboxPolicy of the sandbox: allow, deny_patterns
    sandbox,    \* DockerSandbox construction: is self.mem / self.pids_limit truthy
    missing,    \* the resource controllers the host lacks
    hostLeaves, \* does a creation that raises leave its container on the host
    host,       \* ids of the containers that exist on the Docker host
    nextCid,    \* the id the host gives the next container it creates
    audit,      \* audit.jsonl: the sequence of events written
    nextId,     \* source of uuid4 event ids
    rpc,        \* position in DockerSandbox.run
    run,        \* locals of the current run call and what the call has done
    spc,        \* position in run_sequence
    seq,        \* locals of the current run_sequence call
    ncalls,     \* number of run calls made so far
    nfaults,    \* number of Docker API calls that have raised so far
    ws,         \* the workspace directory: its entries by name
    txn,        \* the Transaction object and its files in /tmp
    work,       \* the code wrapped by the with statement: steps taken
    apc,        \* position in QuicksortAgent.run_demo
    agent,      \* locals of run_demo and what its last attempt did
    pcmd,       \* the command last handed to _check_policy on its own
    pres,       \* what _check_policy did with it
    peer        \* a second thread of control: its rpc, run, spc, seq, txn, work

vars == <<policy, sandbox, missing, hostLeaves, host, nextCid, audit, nextId, rpc, run,
          spc, seq, ncalls, nfaults, ws, txn, work, apc, agent, pcmd, pres, peer>>

runVarsButFaults ==
    <<sandbox, missing, hostLeaves, host, nextCid, audit, nextId, rpc, run, spc, seq, ncalls>>
runVars == <<runVarsButFaults, nfaults>>

\* ------------------------------------------------------------------------
\* DockerSandbox.run
\* ------------------------------------------------------------------------
NoRun ==
    [cmd |-> <<>>, verdict |-> PolicyOk, limits |-> [cpu |-> TRUE, mem |-> TRUE, pids |-> TRUE],
     fallbacks |-> <<>>, attempt |-> 0, container |-> NoContainer, code |-> NoCode,
     eventId |-> 0, limits_fallback |-> <<>>, result |-> NoResult,
     auditAtEntry |-> <<>>, hostAtEntry |-> {}, created |-> {}, creates |-> 0, starts |-> 0,
     rmOps |-> 0, retryCause |-> {}, apiFaults |-> 0, attempts |-> <<>>]

NoSeq == [cmds |-> <<>>, i |-> 0,
          ret |-> [ok |-> FALSE, failing_cmd |-> <<>>, result |-> NoResult]]

RunIdle ==
    /\ host = {}
    /\ nextCid = 1
    /\ audit = <<>>
    /\ nextId = 1
    /\ rpc = "idle"
    /\ run = NoRun
    /\ spc = "idle"
    /\ seq = NoSeq
    /\ ncalls = 0
    /\ nfaults = 0

\* kwargs of _create_container that ask the host for a resource controller
Requested(limits) ==
    {c \in Controllers :
        \/ c = "cpu" /\ limits.cpu
        \/ c = "memory" /\ limits.mem /\ sandbox.mem
        \/ c = "pids" /\ limits.pids /\ sandbox.pids_limit}

\* the default construction of a DockerSandbox: mem "512m", pids_limit 128,
\* network False
DefaultSandbox == [mem |-> TRUE, pids_limit |-> TRUE, network |-> FALSE]

\* _whitelist_env
WhitelistEnv == HostEnv \cap policy.env_allowlist

\* A bug _create_container could have: a retry after a fallback is made
\* without the read-only root filesystem.
KwargsWritableOnRetry(limits) ==
    [user |-> "1000:1000", cap_drop |-> {"ALL"}, security_opt |-> {"no-new-privileges"},
     read_only |-> (limits.cpu /\ limits.mem /\ limits.pids), tmpfs |-> {"/tmp", "/run"},
     network_disabled |-> ~sandbox.network, environment |-> WhitelistEnv,
     resources |-> Requested(limits)]

\* kwargs of _create_container; resources stands for nano_cpus, mem_limit and
\* pids_limit, by the controller each asks the host for
Kwargs(limits) ==
    [user |-> "1000:1000", cap_drop |-> {"ALL"}, security_opt |-> {"no-new-privileges"},
     read_only |-> TRUE, tmpfs |-> {"/tmp", "/run"},
     network_disabled |-> ~sandbox.network, environment |-> WhitelistEnv,
     resources |-> Requested(limits)]

\* A bug the except clause could have: a branch is taken whether or not its
\* limit is still on.
ClassifyAnyState(exp, limits) ==
    IF "pids.max" \in exp \/ ("pids" \in exp /\ "no such file" \in exp) \/ "pids limit" \in exp
    THEN "pids"
    ELSE IF "memory.max" \in exp \/ ("memory" \in exp /\ "no such file" \in exp)
            \/ "memory cgroup" \in exp
    THEN "memory"
    ELSE IF "cpu.max" \in exp \/ "cfs_quota" \in exp \/ ("cpu" \in exp /\ "no such file" \in exp)
    THEN "cpu"
    ELSE "none"

\* A bug the except clause could have: the cpu branch is missing.
ClassifyNoCpu(exp, limits) ==
    IF ("pids.max" \in exp \/ ("pids" \in exp /\ "no such file" \in exp) \/ "pids limit" \in exp)
       /\ limits.pids
    THEN "pids"
    ELSE IF ("memory.max" \in exp \/ ("memory" \in exp /\ "no such file" \in exp)
             \/ "memory cgroup" \in exp)
            /\ limits.mem
    THEN "memory"
    ELSE "none"

\* the except APIError clause: which limit the error text switches off
Classify(exp, limits) ==
    IF ("pids.max" \in exp \/ ("pids" \in exp /\ "no such file" \in exp) \/ "pids limit" \in exp)
       /\ limits.pids
    THEN "pids"
    ELSE IF ("memory.max" \in exp \/ ("memory" \in exp /\ "no such file" \in exp)
             \/ "memory cgroup" \in exp)
            /\ limits.mem
    THEN "memory"
    ELSE IF ("cpu.max" \in exp \/ "cfs_quota" \in exp \/ ("cpu" \in exp /\ "no such file" \in exp))
            /\ limits.cpu
    THEN "cpu"
    ELSE "none"

SwitchOff(limits, c) ==
    IF c = "pids" THEN [limits EXCEPT !.pids = FALSE]
    ELSE IF c = "memory" THEN [limits EXCEPT !.mem = FALSE]
    ELSE [limits EXCEPT !.cpu = FALSE]

\* ",".join(fallbacks)
RECURSIVE Join(_)
Join(fallbacks) ==
    IF Len(fallbacks) <= 1 THEN fallbacks
    ELSE <<Head(fallbacks), ",">> \o Join(Tail(fallbacks))

\* {**event, **result}; timeout, image and mount_dest are fixed per sandbox and
\* ts is the clock: they are left out.  limits_fallback = <<>> stands for an
\* event without that key (the key is only ever set to a non-empty string)
EventOf(r, result) ==
    [id |-> r.eventId, cmd |-> r.cmd, limits_fallback |-> r.limits_fallback,
     ok |-> result.ok, code |-> result.code, error |-> result.error]

\* A bug _audit could have: the file is opened with "w".
AuditRewrites(event) == audit' = <<event>>

\* _audit: open(self.audit_path, "a"), one line written
Audit(event) == audit' = Append(audit, event)

\* container.remove(force=True) inside try/except Exception: pass
Remove(h, cid, outcome) == IF outcome = "removed" THEN h \ {cid} ELSE h
RemoveOutcomes == {"removed", "raises"}

\* self._audit({**event, **result}); return result
Terminate(r, result) ==
    /\ run' = [r EXCEPT !.result = result]
    /\ Audit(EventOf(r, result))
    /\ rpc' = "returned"

\* A bug the loop could have: every failed attempt writes its own event.
RetryAudits(r) ==
    IF r.attempt + 1 < Attempts
    THEN /\ run' = [r EXCEPT !.attempt = @ + 1, !.container = NoContainer, !.code = NoCode]
         /\ rpc' = "create"
         /\ Audit(EventOf(r, ErrorResult("docker.APIError")))
    ELSE Terminate([r EXCEPT !.attempt = @ + 1],
                   ErrorResult("Unable to create container after limit fallbacks"))

\* continue: the next iteration of for _ in range(4), or the code after the loop
Retry(r) ==
    IF r.attempt + 1 < Attempts
    THEN /\ run' = [r EXCEPT !.attempt = @ + 1, !.container = NoContainer, !.code = NoCode]
         /\ rpc' = "create"
         /\ UNCHANGED audit
    ELSE Terminate([r EXCEPT !.attempt = @ + 1],
                   ErrorResult("Unable to create container after limit fallbacks"))

\* except APIError as e
OnAPIError(r, exp, cause) ==
    LET c == Classify(exp, r.limits)
    IN  IF c # "none"
        THEN Retry([r EXCEPT !.limits = SwitchOff(@, c),
                             !.fallbacks = Append(@, c),
                             !.limits_fallback = Join(Append(r.fallbacks, c)),
                             !.retryCause = @ \cup {cause}])
        ELSE Terminate(r, ErrorResult("docker.APIError"))

\* A bug run could have: limits and fallbacks are kept on the sandbox instead
\* of in the call, so a call starts from what the other thread's call left.
RunEnterSharedLimits(cmd) ==
    LET v == CheckPolicy(cmd, policy.allow, policy.deny)
        r == [NoRun EXCEPT !.cmd = cmd, !.verdict = v, !.auditAtEntry = audit,
                           !.hostAtEntry = host, !.limits = peer.run.limits,
                           !.fallbacks = peer.run.fallbacks]
    IN  /\ ncalls' = ncalls + 1
        /\ IF v.kind # "ok"
           THEN /\ rpc' = "raised"
                /\ run' = r
                /\ UNCHANGED nextId
           ELSE /\ rpc' = "create"
                /\ run' = [r EXCEPT !.eventId = nextId]
                /\ nextId' = nextId + 1

\* A bug run could have: the policy check is forgotten.
RunEnterUnchecked(cmd) ==
    /\ ncalls' = ncalls + 1
    /\ rpc' = "create"
    /\ run' = [NoRun EXCEPT !.cmd = cmd, !.auditAtEntry = audit, !.hostAtEntry = host,
                            !.eventId = nextId]
    /\ nextId' = nextId + 1

\* A change run could have: a violation is returned as a failure result.
RunEnterReturnsViolation(cmd) ==
    LET v == CheckPolicy(cmd, policy.allow, policy.deny)
        r == [NoRun EXCEPT !.cmd = cmd, !.verdict = v, !.auditAtEntry = audit,
                           !.hostAtEntry = host]
    IN  /\ ncalls' = ncalls + 1
        /\ IF v.kind # "ok"
           THEN /\ rpc' = "returned"
                /\ run' = [r EXCEPT !.result = ErrorResult("PolicyError")]
                /\ UNCHANGED nextId
           ELSE /\ rpc' = "create"
                /\ run' = [r EXCEPT !.eventId = nextId]
                /\ nextId' = nextId + 1

\* self._check_policy(cmd) and lines 218-228
RunEnter(cmd) ==
    LET v == CheckPolicy(cmd, policy.allow, policy.deny)
        r == [NoRun EXCEPT !.cmd = cmd, !.verdict = v, !.auditAtEntry = audit,
                           !.hostAtEntry = host]
    IN  /\ ncalls' = ncalls + 1
        /\ IF v.kind # "ok"
           THEN /\ rpc' = "raised"
                /\ run' = r
                /\ UNCHANGED nextId
           ELSE /\ rpc' = "create"
                /\ run' = [r EXCEPT !.eventId = nextId]
                /\ nextId' = nextId + 1

\* client.containers.run on this host: with a requested controller missing it
\* raises that controller's missing-file APIError, otherwise the container is
\* created and started; or (a fault) it raises some other APIError.  A creation
\* that raises leaves the created container behind when hostLeaves holds.
CreateOutcomes(limits) ==
    LET gap == missing \cap Requested(limits)
    IN  (IF gap = {}
         THEN {[kind |-> "ok", exp |-> {}, left |-> TRUE, fault |-> 0]}
         ELSE {[kind |-> "apierror", exp |-> MissingFileText(c), left |-> hostLeaves,
                fault |-> 0] : c \in gap})
        \cup {[kind |-> "apierror", exp |-> e, left |-> hostLeaves, fault |-> 1] :
                e \in ErrorTexts}

\* container = self._create_container(cmd, limits)
Create ==
    /\ rpc = "create"
    /\ \E o \in CreateOutcomes(run.limits) :
        LET r0 == [run EXCEPT !.creates = @ + 1,
                              !.apiFaults = @ + o.fault,
                              !.attempts = Append(@, [limits |-> run.limits,
                                                      kwargs |-> Kwargs(run.limits)]),
                              !.created = IF o.left THEN @ \cup {nextCid} ELSE @,
                              !.rmOps = 0]
        IN  /\ nfaults + o.fault <= MaxFaults
            /\ nfaults' = nfaults + o.fault
            /\ host' = IF o.left THEN host \cup {nextCid} ELSE host
            /\ nextCid' = IF o.left THEN nextCid + 1 ELSE nextCid
            /\ IF o.kind = "ok"
               THEN /\ run' = [r0 EXCEPT !.container = nextCid, !.starts = @ + 1]
                    /\ rpc' = "wait"
                    /\ UNCHANGED audit
               ELSE OnAPIError(r0, o.exp, "create")
    /\ UNCHANGED <<ws, txn, work, apc, agent, policy, peer, sandbox, missing, hostLeaves, nextId, spc, seq, ncalls,
                   pcmd, pres>>

\* res = container.wait(timeout=timeout); code = res.get("StatusCode", 1)
Wait ==
    /\ rpc = "wait"
    /\ \E w \in {"exit0", "exit1", "nostatus", "raises"} :
        /\ rpc' = IF w = "raises" THEN "waiterr" ELSE "logs"
        /\ run' = [run EXCEPT !.code = IF w = "raises" THEN NoCode
                                        ELSE IF w = "exit0" THEN {0} ELSE {1}]
    /\ UNCHANGED <<ws, txn, work, apc, agent, policy, peer, sandbox, missing, hostLeaves, host, nextCid, audit, nextId, spc, seq,
                   ncalls, nfaults, pcmd, pres>>

\* container.logs(...): returns, raises an APIError, or raises something else
LogOutcomes ==
    {[kind |-> "ok", exp |-> {}], [kind |-> "exception", exp |-> {}]}
    \cup [kind : {"apierror"}, exp : ErrorTexts]

\* lines 256-263, with the finally of lines 286-292
CollectLogs ==
    /\ rpc = "logs"
    /\ \E lo \in LogOutcomes, rm \in RemoveOutcomes :
        LET raised == (IF lo.kind = "ok" THEN 0 ELSE 1) + (IF rm = "raises" THEN 1 ELSE 0)
            r0 == [run EXCEPT !.rmOps = @ + 1,
                              !.apiFaults = @ + (IF lo.kind = "apierror" THEN 1 ELSE 0)]
        IN  /\ nfaults + raised <= MaxFaults
            /\ nfaults' = nfaults + raised
            /\ host' = Remove(host, run.container, rm)
            /\ CASE lo.kind = "ok" ->
                      Terminate(r0, ExitResult(CHOOSE c \in run.code : TRUE))
                 [] lo.kind = "apierror" -> OnAPIError(r0, lo.exp, "logs")
                 [] OTHER -> Terminate(r0, ErrorResult("exception"))
    /\ UNCHANGED <<ws, txn, work, apc, agent, policy, peer, sandbox, missing, hostLeaves, nextCid, nextId, spc, seq, ncalls, pcmd, pres>>

\* lines 239-254 (except Exception around wait), with the finally of 286-292
WaitError ==
    /\ rpc = "waiterr"
    /\ \E lo \in LogOutcomes, rm1 \in RemoveOutcomes, rm2 \in RemoveOutcomes :
        LET \* the second remove of a container that is gone raises NotFound
            raised == (IF lo.kind = "ok" THEN 0 ELSE 1) + (IF rm1 = "raises" THEN 1 ELSE 0)
                      + (IF rm1 = "raises" /\ rm2 = "raises" THEN 1 ELSE 0)
            r0 == [run EXCEPT !.rmOps = @ + 2,
                              !.apiFaults = @ + (IF lo.kind = "apierror" THEN 1 ELSE 0)]
        IN  /\ rm1 = "removed" => rm2 = "raises"
            /\ nfaults + raised <= MaxFaults
            /\ nfaults' = nfaults + raised
            /\ host' = Remove(Remove(host, run.container, rm1), run.container, rm2)
            /\ CASE lo.kind = "ok" -> Terminate(r0, ErrorResult("wait_error"))
                 [] lo.kind = "apierror" -> OnAPIError(r0, lo.exp, "logs")
                 [] OTHER -> Terminate(r0, ErrorResult("exception"))
    /\ UNCHANGED <<ws, txn, work, apc, agent, policy, peer, sandbox, missing, hostLeaves, nextCid, nextId, spc, seq, ncalls, pcmd, pres>>

Quiet == rpc \in {"idle", "returned", "raised"} /\ spc \in {"idle", "returned", "raised"}

\* ------------------------------------------------------------------------
\* DockerSandbox.run_sequence
\* ------------------------------------------------------------------------
SeqOk == [ok |-> TRUE, failing_cmd |-> <<>>, result |-> NoResult]
SeqFailed(c, r) == [ok |-> FALSE, failing_cmd |-> c, result |-> r]

\* the call, up to the first self.run(c, timeout=timeout)
SeqEnter(cmds) ==
    IF cmds = <<>>
    THEN /\ spc' = "returned"
         /\ seq' = [NoSeq EXCEPT !.ret = SeqOk]
         /\ UNCHANGED <<rpc, run, ncalls, nextId>>
    ELSE /\ spc' = "calling"
         /\ seq' = [NoSeq EXCEPT !.cmds = cmds, !.i = 1]
         /\ RunEnter(cmds[1])

\* A bug run_sequence could have: a failure does not stop the loop.
SeqResumeNoStop ==
    /\ spc = "calling"
    /\ rpc \in {"returned", "raised"}
    /\ IF rpc = "raised"
       THEN /\ spc' = "raised"
            /\ rpc' = "idle"
            /\ UNCHANGED <<seq, run, ncalls, nextId>>
       ELSE LET r == run.result
                ret == IF ~r.ok /\ seq.ret = NoSeq.ret THEN SeqFailed(seq.cmds[seq.i], r)
                       ELSE seq.ret
            IN  IF seq.i < Len(seq.cmds)
                THEN /\ spc' = "calling"
                     /\ seq' = [seq EXCEPT !.i = @ + 1, !.ret = ret]
                     /\ RunEnter(seq.cmds[seq.i + 1])
                ELSE /\ spc' = "returned"
                     /\ seq' = [seq EXCEPT !.ret = IF ret = NoSeq.ret THEN SeqOk ELSE ret]
                     /\ rpc' = "idle"
                     /\ UNCHANGED <<run, ncalls, nextId>>
    /\ UNCHANGED <<ws, txn, work, apc, agent, policy, peer, sandbox, missing, hostLeaves, host, nextCid, audit, nfaults, pcmd, pres>>

\* from the return of self.run to the next call of it, or to the return
SeqResume ==
    /\ spc = "calling"
    /\ rpc \in {"returned", "raised"}
    /\ IF rpc = "raised"
       THEN \* PolicyError passes through run_sequence
            /\ spc' = "raised"
            /\ rpc' = "idle"
            /\ UNCHANGED <<seq, run, ncalls, nextId>>
       ELSE LET r == run.result
            IN  IF ~r.ok
                THEN /\ spc' = "returned"
                     /\ seq' = [seq EXCEPT !.ret = SeqFailed(seq.cmds[seq.i], r)]
                     /\ rpc' = "idle"
                     /\ UNCHANGED <<run, ncalls, nextId>>
                ELSE IF seq.i < Len(seq.cmds)
                THEN /\ spc' = "calling"
                     /\ seq' = [seq EXCEPT !.i = @ + 1]
                     /\ RunEnter(seq.cmds[seq.i + 1])
                ELSE /\ spc' = "returned"
                     /\ seq' = [seq EXCEPT !.ret = SeqOk]
                     /\ rpc' = "idle"
                     /\ UNCHANGED <<run, ncalls, nextId>>
    /\ UNCHANGED <<ws, txn, work, apc, agent, policy, peer, sandbox, missing, hostLeaves, host, nextCid, audit, nfaults, pcmd, pres>>

\* ------------------------------------------------------------------------
\* The workspace and Transaction
\* ------------------------------------------------------------------------
Names == {"x", "y"}
Other(n) == IF n = "x" THEN "y" ELSE "x"

\* An entry of the workspace: nothing, a regular file with its content, a
\* directory with its content (no links inside), a relative symbolic link to
\* another name of the workspace.
NoEntry == [kind |-> "none", data |-> 0, to |-> ""]
File(d) == [kind |-> "file", data |-> d, to |-> ""]
Dir(d) == [kind |-> "dir", data |-> d, to |-> ""]
Link(t) == [kind |-> "link", data |-> 0, to |-> t]

EmptyWs == [n \in Names |-> NoEntry]
Present(w) == {n \in Names : w[n].kind # "none"}

NewTxn ==
    [state |-> "Idle", snap |-> EmptyWs, entry |-> EmptyWs, atExit |-> EmptyWs,
     snapFile |-> FALSE, tmpDir |-> FALSE, raised |-> "none", exited |-> "no",
     enters |-> 0, cleanup |-> {}, snapRm |-> "none"]
NoWork == [steps |-> 0]

\* A bug __enter__ could have: a failure to write the archive is swallowed
\* and the with block entered.
TxnEnterSwallows(t, raises, partial) ==
    /\ nfaults + (IF raises THEN 1 ELSE 0) <= MaxFaults
    /\ nfaults' = nfaults + (IF raises THEN 1 ELSE 0)
    /\ work' = NoWork
    /\ UNCHANGED ws
    /\ IF raises
       THEN txn' = [t EXCEPT !.state = "Snapshotted", !.entry = ws, !.snapFile = @ \/ partial,
                             !.raised = "none", !.exited = "no", !.enters = @ + 1]
       ELSE txn' = [t EXCEPT !.state = "Snapshotted", !.snap = ws, !.entry = ws,
                             !.snapFile = TRUE, !.raised = "none", !.exited = "no",
                             !.enters = @ + 1]

\* __enter__: tarfile.open(self.snap, "w"); tar.add(self.sandbox.workspace).
\* It raises (fault) with or without the archive file left behind.
TxnEnter(t, raises, partial) ==
    /\ nfaults + (IF raises THEN 1 ELSE 0) <= MaxFaults
    /\ nfaults' = nfaults + (IF raises THEN 1 ELSE 0)
    /\ work' = NoWork
    /\ UNCHANGED ws
    /\ IF raises
       THEN txn' = [t EXCEPT !.raised = "snapshot", !.snapFile = @ \/ partial,
                             !.enters = @ + 1]
       ELSE txn' = [t EXCEPT !.state = "Snapshotted", !.snap = ws, !.entry = ws,
                             !.snapFile = TRUE, !.raised = "none", !.exited = "no",
                             !.enters = @ + 1]

\* os.remove(self.snap) inside try/except Exception: pass
RemoveSnap(present, outcome) == present /\ outcome = "raises"

\* __exit__ with exc None (lines 346-352)
TxnCommit(rm) ==
    /\ nfaults + (IF rm = "raises" THEN 1 ELSE 0) <= MaxFaults
    /\ nfaults' = nfaults + (IF rm = "raises" THEN 1 ELSE 0)
    /\ txn' = [txn EXCEPT !.state = "Committed", !.snapFile = RemoveSnap(@, rm),
                          !.exited = "ok", !.raised = "none", !.atExit = ws,
                          !.cleanup = {"snap"}, !.snapRm = rm]
    /\ UNCHANGED ws

\* shutil.copy2(s, d) / shutil.copytree(s, d) of one entry of the extracted
\* snapshot: a directory is copied as a tree, a file as a file, and a link is
\* followed (follow_symlinks defaults to true): its target's content is
\* copied to a regular file, and a link to anything else than a file raises
CopyRaises(snap, n) == snap[n].kind = "link" /\ snap[snap[n].to].kind # "file"
CopyOf(snap, n) ==
    IF snap[n].kind = "link" THEN File(snap[snap[n].to].data) ELSE snap[n]

\* A bug __exit__ could have: the cleanup is not in a finally, so a restore
\* that raises skips it.
TxnRollbackNoFinally(failAt, wiped, copied, rm) ==
    LET names == Present(txn.snap)
        mustFail == \/ failAt = "extract" /\ ~txn.snapFile
                    \/ failAt = "copy" /\ \E n \in names \ copied : CopyRaises(txn.snap, n)
        fault == (IF failAt # "none" /\ ~mustFail THEN 1 ELSE 0)
                 + (IF rm = "raises" THEN 1 ELSE 0)
    IN  /\ failAt \in {"none", "extract", "wipe", "copy"}
        /\ failAt = "none" => txn.snapFile /\ \A n \in names : ~CopyRaises(txn.snap, n)
        /\ failAt \in {"none", "copy"} => txn.snapFile
        /\ failAt = "wipe" => txn.snapFile /\ wiped \subseteq Present(ws) /\ wiped # Present(ws)
        /\ failAt = "copy" =>
            /\ copied \subseteq names /\ copied # names
            /\ \A n \in copied : ~CopyRaises(txn.snap, n)
        /\ nfaults + fault <= MaxFaults
        /\ nfaults' = nfaults + fault
        /\ ws' = CASE failAt = "extract" -> ws
                   [] failAt = "wipe" -> [n \in Names |-> IF n \in wiped THEN NoEntry ELSE ws[n]]
                   [] failAt = "copy" ->
                        [n \in Names |-> IF n \in copied THEN CopyOf(txn.snap, n) ELSE NoEntry]
                   [] OTHER -> [n \in Names |-> CopyOf(txn.snap, n)]
        /\ txn' = [txn EXCEPT !.state = IF failAt = "none" THEN "RolledBack" ELSE "RestoreFailed",
                              !.tmpDir = (failAt # "none"),
                              !.snapFile = IF failAt # "none" THEN @ ELSE RemoveSnap(@, rm),
                              !.exited = "error",
                              !.cleanup = IF failAt # "none" THEN {} ELSE {"tmp", "snap"},
                              !.snapRm = IF failAt # "none" THEN "none" ELSE rm,
                              !.atExit = ws,
                              !.raised = IF failAt = "none" THEN "none" ELSE "restore"]

\* __exit__ with an exception (lines 354-390).  The restore raises at the
\* extraction, or at the wipe having removed the entries of wiped, or at the
\* copy having copied those of copied; or it completes.
TxnRollback(failAt, wiped, copied, rm) ==
    LET names == Present(txn.snap)
        mustFail == \/ failAt = "extract" /\ ~txn.snapFile
                    \/ failAt = "copy" /\ \E n \in names \ copied : CopyRaises(txn.snap, n)
        fault == (IF failAt # "none" /\ ~mustFail THEN 1 ELSE 0)
                 + (IF rm = "raises" THEN 1 ELSE 0)
    IN  /\ failAt \in {"none", "extract", "wipe", "copy"}
        /\ failAt = "none" => txn.snapFile /\ \A n \in names : ~CopyRaises(txn.snap, n)
        /\ failAt \in {"none", "copy"} => txn.snapFile
        /\ failAt = "wipe" => txn.snapFile /\ wiped \subseteq Present(ws) /\ wiped # Present(ws)
        /\ failAt = "copy" =>
            /\ copied \subseteq names /\ copied # names
            /\ \A n \in copied : ~CopyRaises(txn.snap, n)
        /\ nfaults + fault <= MaxFaults
        /\ nfaults' = nfaults + fault
        /\ ws' = CASE failAt = "extract" -> ws
                   [] failAt = "wipe" -> [n \in Names |-> IF n \in wiped THEN NoEntry ELSE ws[n]]
                   [] failAt = "copy" ->
                        [n \in Names |-> IF n \in copied THEN CopyOf(txn.snap, n) ELSE NoEntry]
                   [] OTHER -> [n \in Names |-> CopyOf(txn.snap, n)]
        /\ txn' = [txn EXCEPT !.state = IF failAt = "none" THEN "RolledBack" ELSE "RestoreFailed",
                              !.tmpDir = FALSE,
                              !.snapFile = RemoveSnap(@, rm),
                              !.exited = "error",
                              !.cleanup = {"tmp", "snap"},
                              !.snapRm = rm,
                              !.atExit = ws,
                              !.raised = IF failAt = "none" THEN "none" ELSE "restore"]

\* a second thread that has not called anything yet
NoPeer ==
    [rpc |-> "idle", run |-> NoRun, spc |-> "idle", seq |-> NoSeq, txn |-> NewTxn,
     work |-> NoWork]

NoFiles == ws = EmptyWs /\ txn = NewTxn /\ work = NoWork /\ peer = NoPeer
NoAgent ==
    /\ apc = "idle"
    /\ agent = [attempt |-> 0, code |-> 0, test |-> "none", entry |-> EmptyWs]

\* every way __exit__(exc) can go
TxnRollbackAny ==
    \E failAt \in {"none", "extract", "wipe", "copy"}, wiped \in SUBSET Names,
       copied \in SUBSET Names, rm \in RemoveOutcomes :
        /\ failAt \notin {"wipe"} => wiped = {}
        /\ failAt \notin {"copy"} => copied = {}
        /\ TxnRollback(failAt, wiped, copied, rm)

\* ------------------------------------------------------------------------
\* A caller of the sandbox: run and run_sequence, one call after another
\* ------------------------------------------------------------------------
RunCommands == {<<"a">>, <<"b">>, <<"a", " ", "b">>, <<" ">>}
SeqCommands == {<<"a">>, <<"/", "a">>, <<"b">>}
RunPolicy == [allow |-> {<<"a">>}, deny |-> << <<"b">> >>, env_allowlist |-> DefaultEnv]

CallRun ==
    /\ Quiet
    /\ ncalls < MaxCalls
    /\ \E c \in RunCommands : RunEnter(c)
    /\ spc' = "idle"
    /\ seq' = NoSeq
    /\ UNCHANGED <<ws, txn, work, apc, agent, policy, peer, sandbox, missing, hostLeaves, host, nextCid, audit, nfaults,
                   pcmd, pres>>

CallRunSequence ==
    /\ rpc = "idle"
    /\ spc = "idle"
    /\ \E cmds \in SeqsUpTo(SeqCommands, MaxSeqLen) : SeqEnter(cmds)
    /\ UNCHANGED <<ws, txn, work, apc, agent, policy, peer, sandbox, missing, hostLeaves, host, nextCid, audit, nfaults,
                   pcmd, pres>>

\* run, called on hosts that lack any set of controllers
Init ==
    /\ policy = RunPolicy
    /\ sandbox = DefaultSandbox
    /\ missing \in SUBSET Controllers
    /\ hostLeaves \in BOOLEAN
    /\ pcmd = <<>>
    /\ pres = PolicyErr("none", <<>>)
    /\ RunIdle
    /\ NoFiles
    /\ NoAgent

Next ==
    \/ CallRun
    \/ Create
    \/ Wait
    \/ CollectLogs
    \/ WaitError

Spec == Init /\ [][Next]_vars

\* one run call, by sandboxes built with and without a memory ceiling, a pids
\* ceiling and the network, under every env_allowlist
CallRunFirst == ncalls = 0 /\ CallRun

HardenInit ==
    /\ policy \in {[RunPolicy EXCEPT !.env_allowlist = e] : e \in SUBSET HostEnv}
    /\ sandbox \in [mem : BOOLEAN, pids_limit : BOOLEAN, network : BOOLEAN]
    /\ missing \in SUBSET Controllers
    /\ hostLeaves = FALSE
    /\ pcmd = <<>>
    /\ pres = PolicyErr("none", <<>>)
    /\ RunIdle
    /\ NoFiles
    /\ NoAgent

HardenNext ==
    \/ CallRunFirst
    \/ Create
    \/ Wait
    \/ CollectLogs
    \/ WaitError

HardenSpec == HardenInit /\ [][HardenNext]_vars

\* run_sequence, called on a host with every controller
SeqInit ==
    /\ policy = RunPolicy
    /\ sandbox = DefaultSandbox
    /\ missing = {}
    /\ hostLeaves = FALSE
    /\ pcmd = <<>>
    /\ pres = PolicyErr("none", <<>>)
    /\ RunIdle
    /\ NoFiles
    /\ NoAgent

SeqNext ==
    \/ CallRunSequence
    \/ SeqResume
    \/ Create
    \/ Wait
    \/ CollectLogs
    \/ WaitError

SeqSpec == SeqInit /\ [][SeqNext]_vars

\* ------------------------------------------------------------------------
\* Properties of run
\* ------------------------------------------------------------------------
InRun == rpc \in {"create", "wait", "logs", "waiterr"}
Rejected(cmd) == CheckPolicy(cmd, policy.allow, policy.deny).kind # "ok"
EventCmds == [j \in 1..Len(audit) |-> audit[j].cmd]

\* C1: a command the policy check rejects makes run abort (raise) at once: the
\* call creates no container, makes no attempt, leaves the host and the audit
\* log as they were; and no run that got past its first line has a rejected
\* command.
C1_RejectedAborts ==
    /\ (InRun \/ rpc = "returned") => ~Rejected(run.cmd)
    /\ rpc = "raised" =>
        /\ Rejected(run.cmd)
        /\ run.creates = 0 /\ run.created = {} /\ run.attempt = 0
        /\ host = run.hostAtEntry
        /\ audit = run.auditAtEntry

C1_Witness ==
    /\ rpc = "raised"
    /\ run.verdict.kind = "DeniedPattern"
    /\ ncalls = 2
    /\ Len(audit) = 1

\* C2: when run has returned, no container created by that call is left on
\* the host.
C2_NoContainerLeft == rpc = "returned" => run.created \cap host = {}

\* C5: a call of run that passes the policy check has written no event while
\* it is under way and exactly one when it has returned, which carries the
\* call's command, fallback trail and result; no two events of the log share
\* an id.
C5_OneEventPerRun ==
    /\ InRun => audit = run.auditAtEntry
    /\ rpc = "returned" =>
        audit = Append(run.auditAtEntry,
                       [id |-> run.eventId, cmd |-> run.cmd,
                        limits_fallback |-> run.limits_fallback,
                        ok |-> run.result.ok, code |-> run.result.code,
                        error |-> run.result.error])
    /\ \A i, j \in 1..Len(audit) : i # j => audit[i].id # audit[j].id

C5_Witness ==
    /\ rpc = "returned"
    /\ Len(audit) = 2
    /\ audit[1].cmd = audit[2].cmd
    /\ audit[1].ok = audit[2].ok /\ audit[1].code = audit[2].code
    /\ audit[1].id # audit[2].id
    /\ run.creates >= 2

\* the controllers a fallback trail names
TrailNames(trail) == {trail[j] : j \in 1..Len(trail)} \ {","}
AllOn == [cpu |-> TRUE, mem |-> TRUE, pids |-> TRUE]
CapabilityErrors == {"docker.APIError", "Unable to create container after limit fallbacks"}
\* the call met no Docker API error other than the missing-controller errors
OnlyMissingControllers == run.apiFaults = 0

\* C6 as claimed: on a host that lacks the controllers of `missing` and raises
\* no other API error, run returns no capability error, starts the command
\* once, and its one event names exactly the controllers of `missing` in its
\* fallback trail (no trail when none is missing).
C6_TrailIsMissing ==
    (rpc = "returned" /\ OnlyMissingControllers) =>
        /\ run.result.error \notin CapabilityErrors
        /\ run.starts = 1
        /\ Len(audit) = Len(run.auditAtEntry) + 1
        /\ TrailNames(audit[Len(audit)].limits_fallback) = missing
        /\ (missing = {}) = (audit[Len(audit)].limits_fallback = <<>>)

\* C6 as amended: the trail names exactly the missing controllers that the
\* sandbox asks for (cpu; memory when mem is set; pids when pids_limit is
\* set), and there is no trail when there is none.
C6_TrailIsMissingRequested ==
    (rpc = "returned" /\ OnlyMissingControllers) =>
        /\ run.result.error \notin CapabilityErrors
        /\ run.starts = 1
        /\ Len(audit) = Len(run.auditAtEntry) + 1
        /\ TrailNames(audit[Len(audit)].limits_fallback) = missing \cap Requested(AllOn)
        /\ (missing \cap Requested(AllOn) = {}) = (audit[Len(audit)].limits_fallback = <<>>)
        /\ Len(run.fallbacks) = Cardinality(missing \cap Requested(AllOn))

C6_Witness ==
    /\ rpc = "returned"
    /\ OnlyMissingControllers
    /\ missing = Controllers
    /\ sandbox = DefaultSandbox
    /\ run.result.ok
    /\ TrailNames(audit[Len(audit)].limits_fallback) = Controllers

\* C10: within one run, another creation attempt follows only a creation
\* failure (never a failure of wait or of log collection), and the command is
\* started at most once.
C10_RetryOnlyAfterCreation ==
    /\ run.retryCause \subseteq {"create"}
    /\ run.starts <= 1

\* ------------------------------------------------------------------------
\* Properties of run_sequence
\* ------------------------------------------------------------------------
IsPrefix(s, t) == Len(s) <= Len(t) /\ s = SubSeq(t, 1, Len(s))
SameOutcome(e, r) == e.ok = r.ok /\ e.code = r.code /\ e.error = r.error

\* C7: the commands run_sequence has run (each leaves one event) are a prefix
\* of its list, in order, each once; all but the last went well; it returns ok
\* only with the whole list run and well, and otherwise returns the last
\* command run with its failed result; nothing after that command is run.
C7_InOrderShortCircuit ==
    /\ spc \in {"calling", "returned"} =>
        /\ IsPrefix(EventCmds, seq.cmds)
        /\ \A j \in 1..(Len(audit) - 1) : audit[j].ok
        /\ ncalls <= Len(audit) + 1
    /\ spc = "returned" =>
        /\ ncalls = Len(audit)
        /\ IF seq.ret.ok
           THEN /\ EventCmds = seq.cmds
                /\ \A j \in 1..Len(audit) : audit[j].ok
           ELSE /\ Len(audit) >= 1
                /\ ~audit[Len(audit)].ok
                /\ seq.ret.failing_cmd = seq.cmds[Len(audit)]
                /\ SameOutcome(audit[Len(audit)], seq.ret.result)
                /\ ~seq.ret.result.ok

C7_Witness ==
    /\ spc = "returned"
    /\ ~seq.ret.ok
    /\ Len(seq.cmds) = 3
    /\ Len(audit) = 2
    /\ seq.cmds[1] # seq.cmds[2]
    /\ seq.ret.failing_cmd = seq.cmds[2]

\* C9 as claimed: a policy violation is never an exception: run returns a
\* failure result for a rejected command, and run_sequence returns the not-ok
\* result that names it.
C9_ViolationIsReturned ==
    /\ rpc # "raised"
    /\ spc # "raised"
    /\ (spc = "returned" /\ \E j \in 1..Len(seq.cmds) :
            Rejected(seq.cmds[j]) /\ \A k \in 1..(j - 1) : audit[k].ok) =>
        ~seq.ret.ok

\* C9 as amended: a policy violation is the exception PolicyError: run raises
\* it for a rejected command and returns no result, and run_sequence lets it
\* pass: it returns nothing, having run the commands before the rejected one,
\* which all went well, and none after it.
C9_ViolationIsRaised ==
    /\ rpc = "raised" => (Rejected(run.cmd) /\ run.result = NoResult)
    /\ rpc = "returned" => ~Rejected(run.cmd)
    /\ spc = "raised" =>
        /\ Rejected(seq.cmds[seq.i])
        /\ seq.ret = NoSeq.ret
        /\ ncalls = seq.i
        /\ EventCmds = SubSeq(seq.cmds, 1, seq.i - 1)
        /\ \A j \in 1..Len(audit) : audit[j].ok
    /\ spc = "returned" => \A j \in 1..Len(audit) : ~Rejected(seq.cmds[j])

C9_Witness ==
    /\ spc = "raised"
    /\ seq.i = 2
    /\ Len(seq.cmds) = 3
    /\ Len(audit) = 1


\* the hardening of one creation attempt: everything but the resource limits
Hardening(k) == [k EXCEPT !.resources = {}]
OnIn(limits) ==
    {c \in Controllers :
        \/ c = "cpu" /\ limits.cpu
        \/ c = "memory" /\ limits.mem
        \/ c = "pids" /\ limits.pids}
Configured ==
    {c \in Controllers :
        \/ c = "cpu"
        \/ c = "memory" /\ sandbox.mem
        \/ c = "pids" /\ sandbox.pids_limit}
Hardened(k) ==
    /\ k.user = "1000:1000"
    /\ k.cap_drop = {"ALL"}
    /\ k.security_opt = {"no-new-privileges"}
    /\ k.read_only
    /\ k.network_disabled = ~sandbox.network
    /\ k.environment \subseteq policy.env_allowlist

\* C12 as claimed: every creation attempt of a run is made with the same
\* hardening (non-root user, all capabilities dropped, no-new-privileges,
\* read-only root, network disabled unless the sandbox has it enabled, only
\* allow-listed environment variables), and requests exactly the limits that
\* are on in the LimitState of that attempt.
C12_SameHardening ==
    \A j \in 1..Len(run.attempts) :
        /\ Hardened(run.attempts[j].kwargs)
        /\ Hardening(run.attempts[j].kwargs) = Hardening(run.attempts[1].kwargs)
        /\ run.attempts[j].kwargs.resources = OnIn(run.attempts[j].limits)

\* C12 amended: the same, but a limit is requested exactly when it is on in
\* the LimitState and the sandbox has a ceiling for it (cpu always, memory
\* when mem is set, pids when pids_limit is non-zero).
C12_SameHardeningConfigured ==
    \A j \in 1..Len(run.attempts) :
        /\ Hardened(run.attempts[j].kwargs)
        /\ Hardening(run.attempts[j].kwargs) = Hardening(run.attempts[1].kwargs)
        /\ run.attempts[j].kwargs.resources = OnIn(run.attempts[j].limits) \cap Configured

C12_Witness ==
    /\ rpc = "returned"
    /\ Len(run.attempts) = 4
    /\ run.attempts[4].kwargs.resources = {}
    /\ run.result.ok
    /\ sandbox.network
    /\ run.attempts[4].kwargs.environment = {"PYTHONUNBUFFERED"}
    /\ policy.env_allowlist = HostEnv \ {"HOME"}

\* C14: when run has returned, exactly one remove operation was issued for the
\* container its last attempt created and waited for, whatever the outcome.
C14_RemovedExactlyOnce ==
    (rpc = "returned" /\ run.container # NoContainer) => run.rmOps = 1

\* C20: the result run returns is an exit result (a code, stdout and stderr,
\* no error, ok exactly when the code the container exited with is 0) or an
\* error result (ok false, an error text, no code, no output), never a mix; and
\* the audit event of the call records the same.
IsExitResult(r) ==
    /\ r.code # NoCode
    /\ r.stdout # Absent /\ r.stderr # Absent
    /\ r.error = Absent
    /\ r.ok = (r.code = {0})
IsErrorResult(r) ==
    /\ ~r.ok
    /\ r.error # Absent
    /\ r.code = NoCode
    /\ r.stdout = Absent /\ r.stderr = Absent

C20_ResultShapes ==
    rpc = "returned" =>
        /\ IsExitResult(run.result) \/ IsErrorResult(run.result)
        /\ IsExitResult(run.result) => run.result.code = run.code
        /\ run.result.ok => run.code = {0}
        /\ audit[Len(audit)].ok = run.result.ok
        /\ audit[Len(audit)].code = run.result.code
        /\ audit[Len(audit)].error = run.result.error

\* a call that ended in an error result, then one whose command exited non-zero
C20_Witness ==
    /\ rpc = "returned"
    /\ Len(audit) = 2
    /\ audit[1].error = "wait_error"
    /\ IsExitResult(run.result)
    /\ run.result.code = {1}
    /\ ~run.result.ok

\* C21: within one run a limit that is off has been switched off exactly once
\* and stays off (the trail has no duplicate and names exactly the limits that
\* are off, and the limits of a later attempt are among those of an earlier
\* one); at most 3 attempts ended in a fallback and at most 4 creation attempts
\* were made; and the failure that follows the loop is never the result.
C21_BoundedFallbacks ==
    /\ Len(run.fallbacks) <= 3
    /\ Cardinality(TrailNames(run.fallbacks)) = Len(run.fallbacks)
    /\ TrailNames(run.fallbacks) = Controllers \ OnIn(run.limits)
    /\ \A j \in 1..Len(run.attempts) : \A k \in j..Len(run.attempts) :
            OnIn(run.attempts[k].limits) \subseteq OnIn(run.attempts[j].limits)
    /\ run.creates <= Attempts
    /\ Len(run.attempts) = run.creates
    /\ run.attempt <= Len(run.fallbacks)
    /\ run.result.error # "Unable to create container after limit fallbacks"
    /\ (rpc = "returned" /\ run.creates = Attempts) =>
            (IsExitResult(run.result) \/ IsErrorResult(run.result))

\* three fallbacks, and the fourth attempt runs the command
C21_Witness ==
    /\ rpc = "returned"
    /\ run.creates = Attempts
    /\ Len(run.fallbacks) = 3
    /\ run.starts = 1
    /\ IsExitResult(run.result)

\* ------------------------------------------------------------------------
\* A caller of Transaction: with Transaction(sandbox): work
\* ------------------------------------------------------------------------
InitialWorkspaces ==
    {w \in [Names -> {NoEntry, File(1), Dir(1)} \cup {Link(n) : n \in Names}] :
        \A n \in Names : w[n].kind = "link" => w[n].to = Other(n)}

Enter ==
    /\ txn.state # "Snapshotted"
    /\ txn.enters < MaxEnters
    /\ \E raises \in BOOLEAN, partial \in BOOLEAN :
        /\ ~raises => ~partial
        /\ TxnEnter(txn, raises, partial)
    /\ UNCHANGED <<policy, peer, runVarsButFaults, apc, agent, pcmd, pres>>

\* the wrapped work writes a file
WorkWrite ==
    /\ txn.state = "Snapshotted"
    /\ work.steps < MaxWork
    /\ \E n \in Names, d \in 1..MaxData :
        /\ ws[n].kind \in {"none", "file"}
        /\ ws' = [ws EXCEPT ![n] = File(d)]
    /\ work' = [work EXCEPT !.steps = @ + 1]
    /\ UNCHANGED <<txn, policy, peer, runVars, apc, agent, pcmd, pres>>

\* the wrapped work deletes an entry
WorkDelete ==
    /\ txn.state = "Snapshotted"
    /\ work.steps < MaxWork
    /\ \E n \in Present(ws) : ws' = [ws EXCEPT ![n] = NoEntry]
    /\ work' = [work EXCEPT !.steps = @ + 1]
    /\ UNCHANGED <<txn, policy, peer, runVars, apc, agent, pcmd, pres>>

\* the wrapped work completes: __exit__(None, None, None)
WorkDone ==
    /\ txn.state = "Snapshotted"
    /\ \E rm \in RemoveOutcomes : TxnCommit(rm)
    /\ UNCHANGED <<work, policy, peer, runVarsButFaults, apc, agent, pcmd, pres>>

\* the wrapped work raises: __exit__(exc_type, exc, tb)
WorkRaise ==
    /\ txn.state = "Snapshotted"
    /\ TxnRollbackAny
    /\ UNCHANGED <<work, policy, peer, runVarsButFaults, apc, agent, pcmd, pres>>

TxnInit ==
    /\ policy = RunPolicy
    /\ sandbox = DefaultSandbox
    /\ missing = {}
    /\ hostLeaves = FALSE
    /\ pcmd = <<>>
    /\ pres = PolicyErr("none", <<>>)
    /\ RunIdle
    /\ ws \in InitialWorkspaces
    /\ txn = NewTxn
    /\ work = NoWork
    /\ peer = NoPeer
    /\ NoAgent

TxnNext ==
    \/ Enter
    \/ WorkWrite
    \/ WorkDelete
    \/ WorkDone
    \/ WorkRaise

TxnSpec == TxnInit /\ [][TxnNext]_vars

\* C3: a Transaction whose work raised after changing the workspace leaves the
\* workspace as it was at entry, lets no error out and has deleted its
\* snapshot; one whose work completed leaves the workspace as the work left
\* it, lets no error out and has deleted its snapshot.
C3_AllOrNothing ==
    /\ (txn.exited = "error" /\ work.steps >= 1) =>
        /\ ws = txn.entry
        /\ txn.raised = "none"
        /\ ~txn.snapFile
    /\ txn.exited = "ok" =>
        /\ ws = txn.atExit
        /\ txn.raised = "none"
        /\ ~txn.snapFile

\* C15: a step of __enter__ in which writing the snapshot fails raises to the
\* caller, opens no transaction and leaves the workspace as it was; a
\* transaction is only ever open with the snapshot of the workspace at entry
\* on disk; and the wrapped work has taken no step after a failed entry.
C15_SnapshotFailureRaised ==
    /\ [](txn.raised = "snapshot" => (txn.state # "Snapshotted" /\ work.steps = 0))
    /\ [][txn'.enters # txn.enters =>
            /\ ws' = ws
            /\ nfaults' # nfaults => (txn'.raised = "snapshot" /\ txn'.state # "Snapshotted")
            /\ txn'.state = "Snapshotted" => (txn'.snapFile /\ txn'.snap = ws)]_vars

C15_Witness ==
    /\ txn.raised = "snapshot"
    /\ txn.snapFile
    /\ txn.state = "Idle"
    /\ Present(ws) = Names

C17_RestoreFailureNotEscalated == txn.exited = "error" => txn.raised = "none"

\* the state of the claimed machine: a rollback whose restore failed counts as
\* rolled back
StateOf(t) == IF t.state = "RestoreFailed" THEN "RolledBack" ELSE t.state

\* C18: a Transaction only ever moves Idle -> Snapshotted and Snapshotted ->
\* Committed or RolledBack; in particular it is never entered again after it
\* has committed or rolled back.
C18_StateMachine ==
    [][StateOf(txn') # StateOf(txn) =>
        \/ StateOf(txn) = "Idle" /\ StateOf(txn') = "Snapshotted"
        \/ StateOf(txn) = "Snapshotted" /\ StateOf(txn') \in {"Committed", "RolledBack"}]_vars

\* ------------------------------------------------------------------------
\* Two threads of control on one sandbox and one workspace
\* ------------------------------------------------------------------------
\* The scheduler runs the other thread: the locals of the two threads change
\* places; the host, the audit log and the workspace are shared.
Yield ==
    /\ peer' = [rpc |-> rpc, run |-> run, spc |-> spc, seq |-> seq, txn |-> txn, work |-> work]
    /\ rpc' = peer.rpc
    /\ run' = peer.run
    /\ spc' = peer.spc
    /\ seq' = peer.seq
    /\ txn' = peer.txn
    /\ work' = peer.work
    /\ <<rpc', run', spc', seq', txn', work'>> # <<rpc, run, spc, seq, txn, work>>
    /\ UNCHANGED <<policy, sandbox, missing, hostLeaves, host, nextCid, audit, nextId, ncalls,
                   nfaults, ws, apc, agent, pcmd, pres>>

\* two Transaction objects on the same workspace, one per thread
TwoTxnInit ==
    /\ policy = RunPolicy
    /\ sandbox = DefaultSandbox
    /\ missing = {}
    /\ hostLeaves = FALSE
    /\ pcmd = <<>>
    /\ pres = PolicyErr("none", <<>>)
    /\ RunIdle
    /\ ws \in {EmptyWs, [EmptyWs EXCEPT !["x"] = File(1)]}
    /\ txn = NewTxn
    /\ work = NoWork
    /\ peer = NoPeer
    /\ NoAgent

\* each thread uses its Transaction object once
EnterOnce == txn.enters = 0 /\ Enter

TwoTxnNext ==
    \/ EnterOnce
    \/ WorkWrite
    \/ WorkDelete
    \/ WorkDone
    \/ WorkRaise
    \/ Yield

TwoTxnSpec == TwoTxnInit /\ [][TwoTxnNext]_vars

\* C11: at most one Transaction is open (snapshot taken, not yet committed or
\* rolled back) on the workspace at any time.
C11_SingleWriter == ~(txn.state = "Snapshotted" /\ peer.txn.state = "Snapshotted")

\* ------------------------------------------------------------------------
\* Two threads calling run and run_sequence on one sandbox
\* ------------------------------------------------------------------------
ConcCommands == {<<"a">>, <<"b">>}
ConcSequences == {<< <<"a">> >>, << <<"b">>, <<"a">> >>}

\* a thread makes its one call: run
ConcCallRun ==
    /\ rpc = "idle"
    /\ spc = "idle"
    /\ \E c \in ConcCommands : RunEnter(c)
    /\ UNCHANGED <<ws, txn, work, apc, agent, policy, peer, sandbox, missing, hostLeaves, host,
                   nextCid, audit, nfaults, spc, seq, pcmd, pres>>

\* a thread makes its one call: run_sequence
ConcCallRunSequence ==
    /\ rpc = "idle"
    /\ spc = "idle"
    /\ \E cmds \in ConcSequences : SeqEnter(cmds)
    /\ UNCHANGED <<ws, txn, work, apc, agent, policy, peer, sandbox, missing, hostLeaves, host,
                   nextCid, audit, nfaults, pcmd, pres>>

ConcInit ==
    /\ policy = RunPolicy
    /\ sandbox = DefaultSandbox
    /\ missing \in {{}, {"pids"}}
    /\ hostLeaves = FALSE
    /\ pcmd = <<>>
    /\ pres = PolicyErr("none", <<>>)
    /\ RunIdle
    /\ NoFiles
    /\ NoAgent

ConcNext ==
    \/ ConcCallRun
    \/ ConcCallRunSequence
    \/ SeqResume
    \/ Create
    \/ Wait
    \/ CollectLogs
    \/ WaitError
    \/ Yield

ConcSpec == ConcInit /\ [][ConcNext]_vars

\* C13: the audit log is append-only: every step of every run and
\* run_sequence call, of either thread, leaves the records that were in the
\* log in place and in order, as a prefix of the log after the step.
C13_AppendOnly == [][IsPrefix(audit, audit')]_vars

\* two calls that overlapped have both written: the call that began second
\* wrote first
C13_Witness ==
    /\ Len(audit) = 2
    /\ audit[1].id > audit[2].id

\* C19: of two threads calling run on one sandbox, each call creates its own
\* containers and a step removes only a container the stepping call created;
\* each call makes its first attempt with every limit on and an empty trail;
\* the trail a call records names exactly the limits its own LimitState has
\* off; and no step of one call changes the locals of the other.
C19_CallsIsolated ==
    /\ [](/\ run.created \cap peer.run.created = {}
          /\ (rpc = "create" /\ run.creates = 0) =>
                (run.limits = AllOn /\ run.fallbacks = <<>>)
          /\ Len(run.attempts) >= 1 => run.attempts[1].limits = AllOn
          /\ TrailNames(run.fallbacks) = Controllers \ OnIn(run.limits)
          /\ rpc = "returned" =>
                \E j \in 1..Len(audit) :
                    /\ audit[j].id = run.eventId
                    /\ audit[j].limits_fallback = Join(run.fallbacks))
    /\ [][/\ (host \ host') \subseteq run.created
          /\ peer' # peer => (peer'.run = run /\ run' = peer.run)]_vars

\* both calls have returned, they overlapped, and one took a fallback the
\* other did not
C19_Witness ==
    /\ rpc = "returned"
    /\ peer.rpc = "returned"
    /\ Len(audit) = 2
    /\ audit[1].id > audit[2].id
    /\ run.fallbacks # peer.run.fallbacks
    /\ run.created # {}
    /\ peer.run.created # {}

\* ------------------------------------------------------------------------
\* QuickSortAgent.run_demo
\* ------------------------------------------------------------------------
AgentAttempts == 3
TestCmd == <<"a">>
DemoCmd == <<"b">>
Permissive == [allow |-> {}, deny |-> <<>>, env_allowlist |-> DefaultEnv]
AgentPolicies ==
    {Permissive, RunPolicy, [allow |-> {<<"b">>}, deny |-> <<>>, env_allowlist |-> DefaultEnv]}

\* the end of one iteration of for attempt in range(1, 4)
AgentLoop == IF agent.attempt < AgentAttempts THEN "loop" ELSE "failed"

\* an exception leaves the with block: __exit__ rolls back and suppresses it,
\* unless the restore itself raises
AgentRaise(t) ==
    /\ TxnRollbackAny
    /\ apc' = IF txn'.raised = "restore" THEN "crashed" ELSE AgentLoop
    /\ agent' = [agent EXCEPT !.test = t]

\* with Transaction(self.sandbox):
AgentEnter ==
    /\ apc = "loop"
    /\ \E raises \in BOOLEAN, partial \in BOOLEAN :
        /\ ~raises => ~partial
        /\ TxnEnter(NewTxn, raises, partial)
    /\ apc' = IF txn'.raised = "snapshot" THEN "crashed" ELSE "generate"
    /\ agent' = [agent EXCEPT !.attempt = @ + 1, !.entry = ws, !.test = "none", !.code = 0]
    /\ UNCHANGED <<policy, peer, runVarsButFaults, pcmd, pres>>

\* code = self.generate_code(); res = self.test_in_sandbox(code), up to its
\* run_sequence call.  generate_code raises when the reply has no code block.
AgentGenerate ==
    /\ apc = "generate"
    /\ \E g \in 0..MaxData :
        IF g = 0
        THEN /\ AgentRaise("none")
             /\ UNCHANGED <<work, rpc, run, spc, seq, ncalls, nextId>>
        ELSE /\ ws' = [ws EXCEPT !["x"] = File(g)]
             /\ agent' = [agent EXCEPT !.code = g]
             /\ apc' = "testing"
             /\ SeqEnter(<<TestCmd>>)
             /\ UNCHANGED <<txn, work, nfaults>>
    /\ UNCHANGED <<policy, peer, sandbox, missing, hostLeaves, host, nextCid, audit, pcmd, pres>>

\* if res["ok"]: demo = self.sandbox.run(...)   else: logging.warning(...)
AgentAfterTest ==
    /\ apc = "testing"
    /\ spc \in {"returned", "raised"}
    /\ IF spc = "raised"
       THEN /\ AgentRaise("raised")
            /\ UNCHANGED <<rpc, run, ncalls, nextId>>
       ELSE IF seq.ret.ok
       THEN /\ RunEnter(DemoCmd)
            /\ apc' = "demo"
            /\ agent' = [agent EXCEPT !.test = "passed"]
            /\ UNCHANGED <<ws, txn, nfaults>>
       ELSE /\ \E rm \in RemoveOutcomes : TxnCommit(rm)
            /\ apc' = AgentLoop
            /\ agent' = [agent EXCEPT !.test = "failed"]
            /\ UNCHANGED <<rpc, run, ncalls, nextId>>
    /\ UNCHANGED <<work, policy, peer, sandbox, missing, hostLeaves, host, nextCid, audit, spc, seq,
                   pcmd, pres>>

\* print(...); return   and the end of the with block
AgentAfterDemo ==
    /\ apc = "demo"
    /\ rpc \in {"returned", "raised"}
    /\ IF rpc = "raised"
       THEN AgentRaise("passed")
       ELSE /\ \E rm \in RemoveOutcomes : TxnCommit(rm)
            /\ apc' = "done"
            /\ UNCHANGED agent
    /\ rpc' = "idle"
    /\ UNCHANGED <<work, policy, peer, sandbox, missing, hostLeaves, host, nextCid, audit, nextId, run,
                   spc, seq, ncalls, pcmd, pres>>

AgentInit ==
    /\ policy \in AgentPolicies
    /\ sandbox = DefaultSandbox
    /\ missing = {}
    /\ hostLeaves = FALSE
    /\ pcmd = <<>>
    /\ pres = PolicyErr("none", <<>>)
    /\ RunIdle
    /\ ws \in {EmptyWs, [EmptyWs EXCEPT !["x"] = File(1)]}
    /\ txn = NewTxn
    /\ work = NoWork
    /\ peer = NoPeer
    /\ apc = "loop"
    /\ agent = [attempt |-> 0, code |-> 0, test |-> "none", entry |-> EmptyWs]

AgentNext ==
    \/ AgentEnter
    \/ AgentGenerate
    \/ AgentAfterTest
    \/ AgentAfterDemo
    \/ SeqResume
    \/ Create
    \/ Wait
    \/ CollectLogs
    \/ WaitError

AgentSpec == AgentInit /\ [][AgentNext]_vars

\* C4: when the verification of an attempt has failed (run_sequence returned
\* ok false inside the Transaction), the Transaction has rolled back and the
\* workspace is again what it was when the attempt began, before the next
\* attempt starts.
C4_FailedVerificationRollsBack ==
    (agent.test = "failed" /\ apc \in {"loop", "failed"}) =>
        /\ txn.state = "RolledBack"
        /\ ws = agent.entry

\* ------------------------------------------------------------------------
\* _check_policy on its own, over every policy and command of the bounds
\* ------------------------------------------------------------------------
PolicyInit ==
    /\ policy \in AllPolicies
    /\ pcmd = <<>>
    /\ pres = PolicyErr("none", <<>>)
    /\ sandbox = DefaultSandbox
    /\ missing = {}
    /\ hostLeaves = FALSE
    /\ RunIdle
    /\ NoFiles
    /\ NoAgent

CheckOne ==
    \E c \in AllCommands :
        /\ pres.kind = "none"
        /\ pcmd' = c
        /\ pres' = CheckPolicy(c, policy.allow, policy.deny)
        /\ UNCHANGED <<policy, peer, runVars, ws, txn, work, apc, agent>>

PolicyNext == CheckOne

PolicySpec == PolicyInit /\ [][PolicyNext]_vars

\* ------------------------------------------------------------------------
\* Properties of _check_policy
\* ------------------------------------------------------------------------
WhitespaceOnly(c) == \A j \in 1..Len(c) : IsSpace(c[j])
\* the first whitespace-delimited token of c, which is not whitespace-only
TokenOf(c) ==
    LET st == CHOOSE j \in 1..Len(c) : ~IsSpace(c[j]) /\ \A k \in 1..(j - 1) : IsSpace(c[k])
        en == CHOOSE e \in st..Len(c) :
                /\ \A k \in st..e : ~IsSpace(c[k])
                /\ (e = Len(c) \/ IsSpace(c[e + 1]))
    IN  SubSeq(c, st, en)
\* what follows the last path separator
BaseNameOf(t) ==
    LET slashes == {j \in 1..Len(t) : t[j] = "/"}
    IN  IF slashes = {} THEN t
        ELSE SubSeq(t, (CHOOSE j \in slashes : \A k \in slashes : k <= j) + 1, Len(t))
\* c without its leading and trailing whitespace
Trimmed(c) ==
    LET ink == {j \in 1..Len(c) : ~IsSpace(c[j])}
    IN  IF ink = {} THEN <<>>
        ELSE SubSeq(c, CHOOSE j \in ink : \A k \in ink : j <= k,
                       CHOOSE j \in ink : \A k \in ink : k <= j)
\* the result the claim gives, the deny patterns being matched against text
Claimed(c, allow, deny, text) ==
    LET hits == {j \in 1..Len(deny) : Search(deny[j], text)}
    IN  IF WhitespaceOnly(c) THEN PolicyErr("EmptyCommand", <<>>)
        ELSE IF allow # {} /\ BaseNameOf(TokenOf(c)) \notin allow
        THEN PolicyErr("NotAllowlisted", <<>>)
        ELSE IF hits # {}
        THEN PolicyErr("DeniedPattern", deny[CHOOSE j \in hits : \A k \in hits : j <= k])
        ELSE PolicyOk

====
